---- MODULE Spec2Model ----
(***************************************************************************)
(* Model of the polifunction algebra of src/core/interfaces: the error     *)
(* taxonomy and output-value model (polifunction.rs), the set-valued       *)
(* subsystem (set_valued.rs), the interval-valued subsystem                *)
(* (interval_valued.rs) and the cross-cutting combinators (operations.rs). *)
(*                                                                         *)
(* Every operation of the library is a pure function of the polifunction   *)
(* it is called on and of the input of the call.  The initial states are   *)
(* the operands p1, p2 the combinators are constructed from; an action     *)
(* constructs a polifunction over them, calls one of its methods and       *)
(* records the call: the receiver, the method, the value argument, what    *)
(* was returned and which leaf domain checks and closures ran, in order.   *)
(*                                                                         *)
(* A leaf polifunction is represented at the element it is queried on:     *)
(* the record [kind, who, at, domain, fn] says that leaf `who`, asked      *)
(* about element `at`, answers domain.contains(at) = domain and that its   *)
(* stored closure returns fn there.  In the families "set", "interval",    *)
(* "partial" and "base" every leaf is queried on the one input of the call *)
(* (element 0); in the family "compose" the outer polifunction p1 is a     *)
(* table of such records, one per element of its own domain type, because  *)
(* it is queried on the converted output of p2.  The family "interval" is  *)
(* over an integer (totally ordered) element type, the family "partial"    *)
(* over a PartialOrd type with an element that compares to nothing.        *)
(*                                                                         *)
(* Trait methods are resolved by the kind of the receiver.  An operand of  *)
(* a combinator is a leaf (in_domain, evaluate, value_set, ...); the       *)
(* polifunction to_interval wraps is a leaf or a union of leaves           *)
(* (original_in_domain, original_value_set).                               *)
(***************************************************************************)
EXTENDS Integers, Sequences, FiniteSets, TLC

VARIABLES
    fam,     \* which element types the operands are over:
             \* "set", "interval", "partial", "base", "compose"
    p1, p2,  \* the operands handed to the constructors
    into,    \* compose only: the Into conversion from p2's codomain to p1's domain
    self,    \* the polifunction the last call was made on
    op,      \* the trait method of the last call
    arg,     \* <<value>> for contains_value, <<>> otherwise
    result,  \* what the last call returned
    trace    \* the leaf domain checks and closure invocations of the last call, in order

vars == <<fam, p1, p2, into, self, op, arg, result, trace>>

(* ---------------------------- bounds ----------------------------------- *)

\* values of the codomain element type of set-valued and lifted leaves
MaxVal == 2
\* interval end points of interval-valued leaves
MaxEnd == 2
\* elements of the domain type of the outer polifunction of compose
MaxMid == 2

Val == 1..MaxVal
End == 1..MaxEnd
Mid == 1..MaxMid
\* values a caller passes to contains_value: every value and one beyond each side
Probe == 0..(MaxVal + 1)
EndProbe == 0..(MaxEnd + 1)

(* ------------------------ polifunction.rs ------------------------------ *)

DomainError == [kind |-> "DomainError", msg |-> ""]
ComputationError == [kind |-> "ComputationError", msg |-> ""]
ConvergenceError == [kind |-> "ConvergenceError", msg |-> ""]
InvalidOperation == [kind |-> "InvalidOperation", msg |-> ""]
Other(m) == [kind |-> "Other", msg |-> m]

\* every error a caller-supplied closure can return
PolifunctionError ==
    {DomainError, ComputationError, ConvergenceError, InvalidOperation, Other("leaf")}

Ok(v) == [ok |-> TRUE, val |-> v]
Err(e) == [ok |-> FALSE, err |-> e]

Single(v) == [tag |-> "Single", v |-> v]
Set(s) == [tag |-> "Set", v |-> s]
IntervalValue(i) == [tag |-> "Interval", v |-> i]
Distribution == [tag |-> "Distribution"]
FuzzySet == [tag |-> "FuzzySet"]

Interval == [lower : End, upper : End, lower_inclusive : BOOLEAN, upper_inclusive : BOOLEAN]

\* the element of a PartialOrd type that partial_cmp relates to nothing, itself
\* included (f64::NAN); it is written as a number outside the ordered elements
NaN == 0 - 1

\* a partially ordered element type: the ordered end points and NaN
PartialEnd == End \cup {NaN}

\* values a caller passes to contains_value over the partially ordered type
PartialEndProbe == EndProbe \cup {NaN}

PartialInterval ==
    [lower : PartialEnd, upper : PartialEnd,
     lower_inclusive : BOOLEAN, upper_inclusive : BOOLEAN]

\* a returned value together with the leaf events of the call, in order
R(r, t) == [r |-> r, t |-> t]

\* Domain::contains asked of leaf P
Chk(P) == [ev |-> "contains", who |-> P.who, at |-> P.at]
\* the stored closure of leaf P invoked
Call(P) == [ev |-> "call", who |-> P.who, at |-> P.at]

(* ---------------- the leaves: structs holding a closure ----------------- *)

BasicSetValuedPolifunction_in_domain(P) == R(P.domain, <<Chk(P)>>)

BasicSetValuedPolifunction_evaluate(P) ==
    LET d == BasicSetValuedPolifunction_in_domain(P) IN
    IF ~d.r THEN R(Err(DomainError), d.t)
    ELSE IF ~P.fn.ok THEN R(Err(P.fn.err), d.t \o <<Call(P)>>)
    ELSE R(Ok(Set(P.fn.val)), d.t \o <<Call(P)>>)

\* BasicSetValuedPolifunction::value_set without its domain check
BasicSetValuedPolifunction_value_set_unchecked(P) == R(P.fn, <<Call(P)>>)

BasicSetValuedPolifunction_value_set(P) ==
    LET d == BasicSetValuedPolifunction_in_domain(P) IN
    IF ~d.r THEN R(Err(DomainError), d.t)
    ELSE R(P.fn, d.t \o <<Call(P)>>)

BasicSetValuedPolifunction_contains_value(P, value) ==
    LET s == BasicSetValuedPolifunction_value_set(P) IN
    IF ~s.r.ok THEN R(Err(s.r.err), s.t)
    ELSE R(Ok(value \in s.r.val), s.t)

BasicSetValuedPolifunction_cardinality(P) ==
    LET s == BasicSetValuedPolifunction_value_set(P) IN
    IF ~s.r.ok THEN R(Err(s.r.err), s.t)
    ELSE R(Ok(Cardinality(s.r.val)), s.t)

LiftedSetValuedPolifunction_in_domain(P) == R(P.domain, <<Chk(P)>>)

LiftedSetValuedPolifunction_evaluate(P) ==
    LET d == LiftedSetValuedPolifunction_in_domain(P) IN
    IF ~d.r THEN R(Err(DomainError), d.t)
    ELSE IF ~P.fn.ok THEN R(Err(P.fn.err), d.t \o <<Call(P)>>)
    ELSE R(Ok(Set({P.fn.val})), d.t \o <<Call(P)>>)

LiftedSetValuedPolifunction_value_set(P) ==
    LET d == LiftedSetValuedPolifunction_in_domain(P) IN
    IF ~d.r THEN R(Err(DomainError), d.t)
    ELSE IF ~P.fn.ok THEN R(Err(P.fn.err), d.t \o <<Call(P)>>)
    ELSE R(Ok({P.fn.val}), d.t \o <<Call(P)>>)

LiftedSetValuedPolifunction_contains_value(P, value) ==
    LET d == LiftedSetValuedPolifunction_in_domain(P) IN
    IF ~d.r THEN R(Err(DomainError), d.t)
    ELSE IF ~P.fn.ok THEN R(Err(P.fn.err), d.t \o <<Call(P)>>)
    ELSE R(Ok(P.fn.val = value), d.t \o <<Call(P)>>)

LiftedSetValuedPolifunction_cardinality(P) ==
    LET d == LiftedSetValuedPolifunction_in_domain(P) IN
    IF ~d.r THEN R(Err(DomainError), d.t)
    ELSE R(Ok(1), d.t)

\* PartialOrd::partial_cmp on the element type: Some(Less | Equal | Greater) or None
partial_cmp(a, b) ==
    IF a = NaN \/ b = NaN THEN "None"
    ELSE IF a < b THEN "Less" ELSE IF a = b THEN "Equal" ELSE "Greater"

\* Sub::sub on the element type: integer subtraction, NaN when an operand is NaN
sub(a, b) == IF a = NaN \/ b = NaN THEN NaN ELSE a - b

\* the two match expressions with every bound taken as inclusive
bound_checks_closed(interval, value) ==
    LET lc == partial_cmp(value, interval.lower)
        uc == partial_cmp(value, interval.upper)
    IN lc \in {"Equal", "Greater"} /\ uc \in {"Equal", "Less"}

\* the two match expressions shared by every contains_value of this file
bound_checks(interval, value) ==
    LET lc == partial_cmp(value, interval.lower)
        uc == partial_cmp(value, interval.upper)
        lower_check == \/ interval.lower_inclusive /\ lc = "Equal"
                       \/ lc = "Greater"
        upper_check == \/ interval.upper_inclusive /\ uc = "Equal"
                       \/ uc = "Less"
    IN lower_check /\ upper_check

BasicIntervalValuedPolifunction_in_domain(P) == R(P.domain, <<Chk(P)>>)

BasicIntervalValuedPolifunction_evaluate(P) ==
    LET d == BasicIntervalValuedPolifunction_in_domain(P) IN
    IF ~d.r THEN R(Err(DomainError), d.t)
    ELSE IF ~P.fn.ok THEN R(Err(P.fn.err), d.t \o <<Call(P)>>)
    ELSE R(Ok(IntervalValue(P.fn.val)), d.t \o <<Call(P)>>)

BasicIntervalValuedPolifunction_value_interval(P) ==
    LET d == BasicIntervalValuedPolifunction_in_domain(P) IN
    IF ~d.r THEN R(Err(DomainError), d.t)
    ELSE R(P.fn, d.t \o <<Call(P)>>)

BasicIntervalValuedPolifunction_contains_value(P, value) ==
    LET i == BasicIntervalValuedPolifunction_value_interval(P) IN
    IF ~i.r.ok THEN R(Err(i.r.err), i.t)
    ELSE R(Ok(bound_checks(i.r.val, value)), i.t)

\* interval_width clamped to a non-negative width
BasicIntervalValuedPolifunction_interval_width_clamped(P) ==
    LET i == BasicIntervalValuedPolifunction_value_interval(P) IN
    IF ~i.r.ok THEN R(Err(i.r.err), i.t)
    ELSE LET w == sub(i.r.val.upper, i.r.val.lower) IN
         R(Ok(IF w < 0 THEN 0 ELSE w), i.t)

BasicIntervalValuedPolifunction_interval_width(P) ==
    LET i == BasicIntervalValuedPolifunction_value_interval(P) IN
    IF ~i.r.ok THEN R(Err(i.r.err), i.t)
    ELSE R(Ok(sub(i.r.val.upper, i.r.val.lower)), i.t)

LiftedPolifunction_in_domain(P) == R(P.domain, <<Chk(P)>>)

\* LiftedPolifunction::evaluate without its domain check
LiftedPolifunction_evaluate_unchecked(P) ==
    IF ~P.fn.ok THEN R(Err(P.fn.err), <<Call(P)>>)
    ELSE R(Ok(Single(P.fn.val)), <<Call(P)>>)

LiftedPolifunction_evaluate(P) ==
    LET d == LiftedPolifunction_in_domain(P) IN
    IF ~d.r THEN R(Err(DomainError), d.t)
    ELSE IF ~P.fn.ok THEN R(Err(P.fn.err), d.t \o <<Call(P)>>)
    ELSE R(Ok(Single(P.fn.val)), d.t \o <<Call(P)>>)

\* constant(value, domain, codomain): a LiftedPolifunction over move |_| Ok(value.clone())
constant(value, domain, who, at) ==
    [kind |-> "Lifted", who |-> who, at |-> at, domain |-> domain, fn |-> Ok(value)]

\* an implementor of PolifunctionBase outside the library: it answers
\* in_domain and evaluate as it pleases (used for the reserved output shapes)
Implementor_in_domain(P) == R(P.domain, <<Chk(P)>>)
Implementor_evaluate(P) == R(P.fn, <<Call(P)>>)

(* ------- trait methods called on an operand, resolved by its kind ------- *)

\* PolifunctionBase::in_domain of an operand
in_domain(P) ==
    CASE P.kind = "BasicSet" -> BasicSetValuedPolifunction_in_domain(P)
      [] P.kind = "LiftToSet" -> LiftedSetValuedPolifunction_in_domain(P)
      [] P.kind = "BasicInterval" -> BasicIntervalValuedPolifunction_in_domain(P)
      [] P.kind = "Lifted" -> LiftedPolifunction_in_domain(P)
      [] P.kind = "Implementor" -> Implementor_in_domain(P)

\* PolifunctionBase::evaluate of an operand
evaluate(P) ==
    CASE P.kind = "BasicSet" -> BasicSetValuedPolifunction_evaluate(P)
      [] P.kind = "LiftToSet" -> LiftedSetValuedPolifunction_evaluate(P)
      [] P.kind = "BasicInterval" -> BasicIntervalValuedPolifunction_evaluate(P)
      [] P.kind = "Lifted" -> LiftedPolifunction_evaluate(P)
      [] P.kind = "Implementor" -> Implementor_evaluate(P)

\* SetValuedPolifunction::value_set of an operand
value_set(P) ==
    CASE P.kind = "BasicSet" -> BasicSetValuedPolifunction_value_set(P)
      [] P.kind = "LiftToSet" -> LiftedSetValuedPolifunction_value_set(P)

\* SetValuedPolifunction::contains_value of an operand
set_contains_value(P, value) ==
    CASE P.kind = "BasicSet" -> BasicSetValuedPolifunction_contains_value(P, value)
      [] P.kind = "LiftToSet" -> LiftedSetValuedPolifunction_contains_value(P, value)

\* IntervalValuedPolifunction::value_interval of an operand
value_interval(P) ==
    CASE P.kind = "BasicInterval" -> BasicIntervalValuedPolifunction_value_interval(P)

(* ----------------- set_valued.rs: the union combinator ------------------ *)

\* UnionPolifunction::in_domain requiring both constituents
UnionPolifunction_in_domain_both(U) ==
    LET d1 == in_domain(U.p1) IN
    IF ~d1.r THEN R(FALSE, d1.t)
    ELSE LET d2 == in_domain(U.p2) IN R(d2.r, d1.t \o d2.t)

\* self.p1.in_domain(input) || self.p2.in_domain(input), short-circuit
UnionPolifunction_in_domain(U) ==
    LET d1 == in_domain(U.p1) IN
    IF d1.r THEN R(TRUE, d1.t)
    ELSE LET d2 == in_domain(U.p2) IN R(d2.r, d1.t \o d2.t)

UnionPolifunction_evaluate(U) ==
    LET d == UnionPolifunction_in_domain(U) IN
    IF ~d.r THEN R(Err(DomainError), d.t)
    ELSE
    LET r1 == value_set(U.p1)
        t1 == d.t \o r1.t
    IN
    IF ~r1.r.ok /\ r1.r.err # DomainError THEN R(Err(r1.r.err), t1)
    ELSE
    LET set1 == IF r1.r.ok THEN r1.r.val ELSE {}
        r2 == value_set(U.p2)
        t2 == t1 \o r2.t
    IN
    IF r2.r.ok THEN R(Ok(Set(set1 \cup r2.r.val)), t2)
    ELSE IF r2.r.err = DomainError
         THEN IF set1 = {} THEN R(Err(DomainError), t2)
              ELSE R(Ok(Set(set1)), t2)
    ELSE R(Err(r2.r.err), t2)

UnionPolifunction_value_set(U) ==
    LET d == UnionPolifunction_in_domain(U) IN
    IF ~d.r THEN R(Err(DomainError), d.t)
    ELSE
    LET r1 == value_set(U.p1)
        r2 == value_set(U.p2)
        set1 == IF r1.r.ok THEN r1.r.val ELSE {}
        set2 == IF r2.r.ok THEN r2.r.val ELSE {}
        result_set == set1 \cup set2
        t == d.t \o r1.t \o r2.t
    IN
    IF result_set = {} THEN R(Err(DomainError), t)
    ELSE R(Ok(result_set), t)

\* UnionPolifunction::contains_value going on to P2 after any error of P1
UnionPolifunction_contains_value_swallow(U, value) ==
    LET d == UnionPolifunction_in_domain(U) IN
    IF ~d.r THEN R(Err(DomainError), d.t)
    ELSE
    LET c1 == set_contains_value(U.p1, value)
        t1 == d.t \o c1.t
    IN
    IF c1.r.ok /\ c1.r.val THEN R(Ok(TRUE), t1)
    ELSE
    LET c2 == set_contains_value(U.p2, value) IN
    R(c2.r, t1 \o c2.t)

UnionPolifunction_contains_value(U, value) ==
    LET d == UnionPolifunction_in_domain(U) IN
    IF ~d.r THEN R(Err(DomainError), d.t)
    ELSE
    LET c1 == set_contains_value(U.p1, value)
        t1 == d.t \o c1.t
    IN
    IF c1.r.ok /\ c1.r.val THEN R(Ok(TRUE), t1)
    ELSE IF ~c1.r.ok /\ c1.r.err # DomainError THEN R(Err(c1.r.err), t1)
    ELSE
    LET c2 == set_contains_value(U.p2, value) IN
    R(c2.r, t1 \o c2.t)

UnionPolifunction_cardinality(U) ==
    LET s == UnionPolifunction_value_set(U) IN
    IF ~s.r.ok THEN R(Err(s.r.err), s.t)
    ELSE R(Ok(Cardinality(s.r.val)), s.t)

UnionPolifunction_new(a, b) == [kind |-> "Union", p1 |-> a, p2 |-> b]

(* --------------- interval_valued.rs: the hull combinator ---------------- *)

HullPolifunction_in_domain(H) ==
    LET d1 == in_domain(H.p1) IN
    IF d1.r THEN R(TRUE, d1.t)
    ELSE LET d2 == in_domain(H.p2) IN R(d2.r, d1.t \o d2.t)

\* hull_of with the lower bound always taken from the first interval
hull_of_first_lower(interval1, interval2) ==
    LET cl == partial_cmp(interval1.lower, interval2.lower)
        cu == partial_cmp(interval1.upper, interval2.upper)
        upper == CASE cu = "Greater" -> <<interval1.upper, interval1.upper_inclusive>>
                   [] cu = "Equal" -> <<interval1.upper,
                                        interval1.upper_inclusive \/ interval2.upper_inclusive>>
                   [] cu = "Less" -> <<interval2.upper, interval2.upper_inclusive>>
    IN
    IF cl = "None" \/ cu = "None" THEN Err(ComputationError)
    ELSE Ok([lower |-> interval1.lower, upper |-> upper[1],
             lower_inclusive |-> interval1.lower_inclusive, upper_inclusive |-> upper[2]])

\* hull_of with a tie inclusive only when both bounds are
hull_of_and_on_ties(interval1, interval2) ==
    LET cl == partial_cmp(interval1.lower, interval2.lower)
        cu == partial_cmp(interval1.upper, interval2.upper)
        lower == CASE cl = "Less" -> <<interval1.lower, interval1.lower_inclusive>>
                   [] cl = "Equal" -> <<interval1.lower,
                                        interval1.lower_inclusive /\ interval2.lower_inclusive>>
                   [] cl = "Greater" -> <<interval2.lower, interval2.lower_inclusive>>
        upper == CASE cu = "Greater" -> <<interval1.upper, interval1.upper_inclusive>>
                   [] cu = "Equal" -> <<interval1.upper,
                                        interval1.upper_inclusive /\ interval2.upper_inclusive>>
                   [] cu = "Less" -> <<interval2.upper, interval2.upper_inclusive>>
    IN
    IF cl = "None" \/ cu = "None" THEN Err(ComputationError)
    ELSE Ok([lower |-> lower[1], upper |-> upper[1],
             lower_inclusive |-> lower[2], upper_inclusive |-> upper[2]])

\* hull_of taking the inner bounds: the larger lower and the smaller upper bound
hull_of_inner(interval1, interval2) ==
    LET cl == partial_cmp(interval1.lower, interval2.lower)
        cu == partial_cmp(interval1.upper, interval2.upper)
        lower == CASE cl = "Greater" -> <<interval1.lower, interval1.lower_inclusive>>
                   [] cl = "Equal" -> <<interval1.lower,
                                        interval1.lower_inclusive \/ interval2.lower_inclusive>>
                   [] cl = "Less" -> <<interval2.lower, interval2.lower_inclusive>>
        upper == CASE cu = "Less" -> <<interval1.upper, interval1.upper_inclusive>>
                   [] cu = "Equal" -> <<interval1.upper,
                                        interval1.upper_inclusive \/ interval2.upper_inclusive>>
                   [] cu = "Greater" -> <<interval2.upper, interval2.upper_inclusive>>
    IN
    IF cl = "None" \/ cu = "None" THEN Err(ComputationError)
    ELSE Ok([lower |-> lower[1], upper |-> upper[1],
             lower_inclusive |-> lower[2], upper_inclusive |-> upper[2]])

\* hull_of with an incomparable pair of bounds ordered as Less
hull_of_default_ordering(interval1, interval2) ==
    LET cl == partial_cmp(interval1.lower, interval2.lower)
        cu == partial_cmp(interval1.upper, interval2.upper)
        lower == CASE cl \in {"Less", "None"} -> <<interval1.lower, interval1.lower_inclusive>>
                   [] cl = "Equal" -> <<interval1.lower,
                                        interval1.lower_inclusive \/ interval2.lower_inclusive>>
                   [] cl = "Greater" -> <<interval2.lower, interval2.lower_inclusive>>
        upper == CASE cu = "Greater" -> <<interval1.upper, interval1.upper_inclusive>>
                   [] cu = "Equal" -> <<interval1.upper,
                                        interval1.upper_inclusive \/ interval2.upper_inclusive>>
                   [] cu \in {"Less", "None"} -> <<interval2.upper, interval2.upper_inclusive>>
    IN
    Ok([lower |-> lower[1], upper |-> upper[1],
        lower_inclusive |-> lower[2], upper_inclusive |-> upper[2]])

\* the hull of two intervals, or ComputationError when a pair of bounds is incomparable
hull_of(interval1, interval2) ==
    LET cl == partial_cmp(interval1.lower, interval2.lower)
        cu == partial_cmp(interval1.upper, interval2.upper)
        lower == CASE cl = "Less" -> <<interval1.lower, interval1.lower_inclusive>>
                   [] cl = "Equal" -> <<interval1.lower,
                                        interval1.lower_inclusive \/ interval2.lower_inclusive>>
                   [] cl = "Greater" -> <<interval2.lower, interval2.lower_inclusive>>
        upper == CASE cu = "Greater" -> <<interval1.upper, interval1.upper_inclusive>>
                   [] cu = "Equal" -> <<interval1.upper,
                                        interval1.upper_inclusive \/ interval2.upper_inclusive>>
                   [] cu = "Less" -> <<interval2.upper, interval2.upper_inclusive>>
    IN
    IF cl = "None" \/ cu = "None" THEN Err(ComputationError)
    ELSE Ok([lower |-> lower[1], upper |-> upper[1],
             lower_inclusive |-> lower[2], upper_inclusive |-> upper[2]])

\* HullPolifunction::value_interval failing when P2 alone is out of domain
HullPolifunction_value_interval_strict(H) ==
    LET d == HullPolifunction_in_domain(H) IN
    IF ~d.r THEN R(Err(DomainError), d.t)
    ELSE
    LET i1 == value_interval(H.p1)
        t1 == d.t \o i1.t
    IN
    IF ~i1.r.ok /\ i1.r.err = DomainError
    THEN LET i2 == value_interval(H.p2) IN R(i2.r, t1 \o i2.t)
    ELSE IF ~i1.r.ok THEN R(Err(i1.r.err), t1)
    ELSE
    LET i2 == value_interval(H.p2)
        t2 == t1 \o i2.t
    IN
    IF ~i2.r.ok THEN R(Err(i2.r.err), t2)
    ELSE R(hull_of(i1.r.val, i2.r.val), t2)

HullPolifunction_value_interval(H) ==
    LET d == HullPolifunction_in_domain(H) IN
    IF ~d.r THEN R(Err(DomainError), d.t)
    ELSE
    LET i1 == value_interval(H.p1)
        t1 == d.t \o i1.t
    IN
    IF ~i1.r.ok /\ i1.r.err = DomainError
    THEN LET i2 == value_interval(H.p2) IN R(i2.r, t1 \o i2.t)
    ELSE IF ~i1.r.ok THEN R(Err(i1.r.err), t1)
    ELSE
    LET i2 == value_interval(H.p2)
        t2 == t1 \o i2.t
    IN
    IF ~i2.r.ok /\ i2.r.err = DomainError THEN R(Ok(i1.r.val), t2)
    ELSE IF ~i2.r.ok THEN R(Err(i2.r.err), t2)
    ELSE R(hull_of(i1.r.val, i2.r.val), t2)

HullPolifunction_evaluate(H) ==
    LET d == HullPolifunction_in_domain(H) IN
    IF ~d.r THEN R(Err(DomainError), d.t)
    ELSE
    LET i == HullPolifunction_value_interval(H) IN
    IF ~i.r.ok THEN R(Err(i.r.err), d.t \o i.t)
    ELSE R(Ok(IntervalValue(i.r.val)), d.t \o i.t)

HullPolifunction_contains_value(H, value) ==
    LET i == HullPolifunction_value_interval(H) IN
    IF ~i.r.ok THEN R(Err(i.r.err), i.t)
    ELSE R(Ok(bound_checks(i.r.val, value)), i.t)

HullPolifunction_interval_width(H) ==
    LET i == HullPolifunction_value_interval(H) IN
    IF ~i.r.ok THEN R(Err(i.r.err), i.t)
    ELSE R(Ok(sub(i.r.val.upper, i.r.val.lower)), i.t)

HullPolifunction_new(a, b) == [kind |-> "Hull", p1 |-> a, p2 |-> b]

(* ------------------ operations.rs: the combinators ---------------------- *)

InvertedPolifunction_new(original) == [kind |-> "Inverted", original |-> original]

\* InvertedPolifunction::evaluate handing the call to the wrapped polifunction
InvertedPolifunction_evaluate_original(P) == evaluate(P.original)

InvertedPolifunction_evaluate(P) == R(Err(Other("Not implemented yet")), <<>>)

InvertedPolifunction_in_domain(P) == R(FALSE, <<>>)

SumPolifunction_new(a, b) == [kind |-> "Sum", p1 |-> a, p2 |-> b]

\* SumPolifunction::in_domain accepting an input of either constituent
SumPolifunction_in_domain_either(S) ==
    LET d1 == in_domain(S.p1) IN
    IF d1.r THEN R(TRUE, d1.t)
    ELSE LET d2 == in_domain(S.p2) IN R(d2.r, d1.t \o d2.t)

\* self.p1.in_domain(input) && self.p2.in_domain(input), short-circuit
SumPolifunction_in_domain(S) ==
    LET d1 == in_domain(S.p1) IN
    IF ~d1.r THEN R(FALSE, d1.t)
    ELSE LET d2 == in_domain(S.p2) IN R(d2.r, d1.t \o d2.t)

\* SumPolifunction::evaluate evaluating P2 before P1
SumPolifunction_evaluate_p2_first(S) ==
    LET d == SumPolifunction_in_domain(S) IN
    IF ~d.r THEN R(Err(DomainError), d.t)
    ELSE
    LET result2 == evaluate(S.p2)
        t1 == d.t \o result2.t
    IN
    IF ~result2.r.ok THEN R(Err(result2.r.err), t1)
    ELSE
    LET result1 == evaluate(S.p1)
        t2 == t1 \o result1.t
    IN
    IF ~result1.r.ok THEN R(Err(result1.r.err), t2)
    ELSE IF result1.r.val.tag = "Single" /\ result2.r.val.tag = "Single"
         THEN R(Ok(Single(result1.r.val.v + result2.r.val.v)), t2)
    ELSE R(Err(Other("Complex operation not yet implemented")), t2)

SumPolifunction_evaluate(S) ==
    LET d == SumPolifunction_in_domain(S) IN
    IF ~d.r THEN R(Err(DomainError), d.t)
    ELSE
    LET result1 == evaluate(S.p1)
        t1 == d.t \o result1.t
    IN
    IF ~result1.r.ok THEN R(Err(result1.r.err), t1)
    ELSE
    LET result2 == evaluate(S.p2)
        t2 == t1 \o result2.t
    IN
    IF ~result2.r.ok THEN R(Err(result2.r.err), t2)
    ELSE IF result1.r.val.tag = "Single" /\ result2.r.val.tag = "Single"
         THEN R(Ok(Single(result1.r.val.v + result2.r.val.v)), t2)
    ELSE R(Err(Other("Complex operation not yet implemented")), t2)

\* compose(p1, p2): p1 is queried on into[v], so it is a table of leaf rows
compose(a, b, conv) == [kind |-> "Compose", p1 |-> a, p2 |-> b, into |-> conv]

compose_ComposedPolifunction_in_domain(C) == in_domain(C.p2)

\* compose's evaluate handing p2's value to p1 without the conversion
compose_ComposedPolifunction_evaluate_unconverted(C) ==
    LET d == compose_ComposedPolifunction_in_domain(C) IN
    IF ~d.r THEN R(Err(DomainError), d.t)
    ELSE
    LET intermediate_result == evaluate(C.p2)
        t1 == d.t \o intermediate_result.t
    IN
    IF ~intermediate_result.r.ok THEN R(Err(intermediate_result.r.err), t1)
    ELSE IF intermediate_result.r.val.tag = "Single"
         THEN LET v == intermediate_result.r.val.v
                  p1_input == IF v \in Mid THEN v ELSE C.into[v]
                  r1 == evaluate(C.p1[p1_input])
              IN R(r1.r, t1 \o r1.t)
    ELSE R(Err(Other("Complex composition not yet implemented")), t1)

compose_ComposedPolifunction_evaluate(C) ==
    LET d == compose_ComposedPolifunction_in_domain(C) IN
    IF ~d.r THEN R(Err(DomainError), d.t)
    ELSE
    LET intermediate_result == evaluate(C.p2)
        t1 == d.t \o intermediate_result.t
    IN
    IF ~intermediate_result.r.ok THEN R(Err(intermediate_result.r.err), t1)
    ELSE IF intermediate_result.r.val.tag = "Single"
         THEN LET p1_input == C.into[intermediate_result.r.val.v]
                  r1 == evaluate(C.p1[p1_input])
              IN R(r1.r, t1 \o r1.t)
    ELSE R(Err(Other("Complex composition not yet implemented")), t1)

(* ------------- polifunction.rs: the placeholder composition ------------ *)

ComposedPolifunction_new(a, b) == [kind |-> "Composed", p1 |-> a, p2 |-> b]

ComposedPolifunction_evaluate(C) ==
    R(Err(Other("ComposedPolifunction evaluation not implemented")), <<>>)

ComposedPolifunction_in_domain(C) == in_domain(C.p2)

(* ------------- operations.rs: to_interval over a set-valued P ---------- *)

\* PolifunctionBase::in_domain of the polifunction to_interval wraps
original_in_domain(P) ==
    CASE P.kind = "Union" -> UnionPolifunction_in_domain(P)
      [] OTHER -> in_domain(P)

\* SetValuedPolifunction::value_set of the polifunction to_interval wraps
original_value_set(P) ==
    CASE P.kind = "Union" -> UnionPolifunction_value_set(P)
      [] OTHER -> value_set(P)

to_interval(p) == [kind |-> "ToInterval", original |-> p]

\* set.iter().min() / set.iter().max() under Ord
iter_min(set) == CHOOSE m \in set : \A y \in set : m <= y
iter_max(set) == CHOOSE m \in set : \A y \in set : m >= y

SetToIntervalPolifunction_in_domain(T) == original_in_domain(T.original)

\* to_interval's value_interval with the least element for both bounds
SetToIntervalPolifunction_value_interval_min_only(T) ==
    LET set == original_value_set(T.original) IN
    IF ~set.r.ok THEN R(Err(set.r.err), set.t)
    ELSE IF set.r.val = {} THEN R(Err(ComputationError), set.t)
    ELSE R(Ok([lower |-> iter_min(set.r.val), upper |-> iter_min(set.r.val),
               lower_inclusive |-> TRUE, upper_inclusive |-> TRUE]), set.t)

SetToIntervalPolifunction_value_interval(T) ==
    LET set == original_value_set(T.original) IN
    IF ~set.r.ok THEN R(Err(set.r.err), set.t)
    ELSE IF set.r.val = {} THEN R(Err(ComputationError), set.t)
    ELSE R(Ok([lower |-> iter_min(set.r.val), upper |-> iter_max(set.r.val),
               lower_inclusive |-> TRUE, upper_inclusive |-> TRUE]), set.t)

SetToIntervalPolifunction_evaluate(T) ==
    LET d == SetToIntervalPolifunction_in_domain(T) IN
    IF ~d.r THEN R(Err(DomainError), d.t)
    ELSE
    LET set == original_value_set(T.original)
        t == d.t \o set.t
    IN
    IF ~set.r.ok THEN R(Err(set.r.err), t)
    ELSE IF set.r.val = {} THEN R(Err(ComputationError), t)
    ELSE R(Ok(IntervalValue([lower |-> iter_min(set.r.val), upper |-> iter_max(set.r.val),
                             lower_inclusive |-> TRUE, upper_inclusive |-> TRUE])), t)

SetToIntervalPolifunction_contains_value(T, value) ==
    LET i == SetToIntervalPolifunction_value_interval(T) IN
    IF ~i.r.ok THEN R(Err(i.r.err), i.t)
    ELSE R(Ok(value >= i.r.val.lower /\ value <= i.r.val.upper), i.t)

SetToIntervalPolifunction_interval_width(T) ==
    LET i == SetToIntervalPolifunction_value_interval(T) IN
    IF ~i.r.ok THEN R(Err(i.r.err), i.t)
    ELSE R(Ok(i.r.val.upper - i.r.val.lower), i.t)

(* ------------------- the operands of a behaviour ------------------------ *)

SetOutcome == {Ok(s) : s \in SUBSET Val} \cup {Err(e) : e \in PolifunctionError}
ScalarOutcome == {Ok(v) : v \in Val} \cup {Err(e) : e \in PolifunctionError}
IntervalOutcome == {Ok(i) : i \in Interval} \cup {Err(e) : e \in PolifunctionError}
PartialIntervalOutcome ==
    {Ok(i) : i \in PartialInterval} \cup {Err(e) : e \in PolifunctionError}
ReservedOutcome == {Ok(Distribution), Ok(FuzzySet)}

Leaf(kind, who, at, outcomes) ==
    [kind : {kind}, who : {who}, at : {at}, domain : BOOLEAN, fn : outcomes]

\* structs of the library, as the sets of their instances seen at the input of the call
BasicSetValuedPolifunction(who) == Leaf("BasicSet", who, 0, SetOutcome)
LiftedSetValuedPolifunction(who) == Leaf("LiftToSet", who, 0, ScalarOutcome)
BasicIntervalValuedPolifunction(who) == Leaf("BasicInterval", who, 0, IntervalOutcome)
PartialIntervalValuedPolifunction(who) == Leaf("BasicInterval", who, 0, PartialIntervalOutcome)
LiftedPolifunction(who) == Leaf("Lifted", who, 0, ScalarOutcome)
Implementor(who) == Leaf("Implementor", who, 0, ReservedOutcome)

\* the closures the outer polifunction of compose is lifted from: every constant
\* closure (a value or an error) and the closure returning its argument
Closure == {[m \in Mid |-> o] : o \in ScalarOutcome} \cup {[m \in Mid |-> Ok(m)]}

\* a LiftedPolifunction over the element type Mid, one row per element
LiftedTable(who) ==
    {[m \in Mid |-> [kind |-> "Lifted", who |-> who, at |-> m,
                     domain |-> m \in D, fn |-> f[m]]] :
        D \in SUBSET Mid, f \in Closure}

IsSetValued(P, who) ==
    P \in BasicSetValuedPolifunction(who) \/ P \in LiftedSetValuedPolifunction(who)

IsBase(P, who) ==
    \/ P \in LiftedPolifunction(who)
    \/ P \in BasicSetValuedPolifunction(who)
    \/ P \in BasicIntervalValuedPolifunction(who)
    \/ P \in Implementor(who)

NoCall ==
    /\ self = [kind |-> "none"]
    /\ op = "new"
    /\ arg = <<>>
    /\ result = <<>>
    /\ trace = <<>>

Init ==
    /\ \/ /\ fam = "set"
          /\ IsSetValued(p1, "p1")
          /\ IsSetValued(p2, "p2")
          /\ into = <<>>
       \/ /\ fam = "interval"
          /\ p1 \in BasicIntervalValuedPolifunction("p1")
          /\ p2 \in BasicIntervalValuedPolifunction("p2")
          /\ into = <<>>
       \/ /\ fam = "partial"
          /\ p1 \in PartialIntervalValuedPolifunction("p1")
          /\ p2 \in PartialIntervalValuedPolifunction("p2")
          /\ into = <<>>
       \/ /\ fam = "base"
          /\ IsBase(p1, "p1")
          /\ IsBase(p2, "p2")
          /\ into = <<>>
       \/ /\ fam = "compose"
          /\ p1 \in LiftedTable("p1")
          /\ IsBase(p2, "p2")
          /\ into \in [Val -> Mid]
    /\ NoCall

(* ------------------------------ calls ---------------------------------- *)

\* one call per behaviour: every method takes &self and the closures are Fn, so
\* a call leaves the polifunctions as they were and a later call sees what the
\* first one saw
Invoke(obj, method, a, res) ==
    /\ op = "new"
    /\ self' = obj
    /\ op' = method
    /\ arg' = a
    /\ result' = res.r
    /\ trace' = res.t
    /\ UNCHANGED <<fam, p1, p2, into>>

BasicSetValued ==
    /\ fam = "set" /\ p1.kind = "BasicSet"
    /\ \/ Invoke(p1, "evaluate", <<>>, BasicSetValuedPolifunction_evaluate(p1))
       \/ Invoke(p1, "in_domain", <<>>, BasicSetValuedPolifunction_in_domain(p1))
       \/ Invoke(p1, "value_set", <<>>, BasicSetValuedPolifunction_value_set(p1))
       \/ \E value \in Probe :
             Invoke(p1, "contains_value", <<value>>,
                    BasicSetValuedPolifunction_contains_value(p1, value))
       \/ Invoke(p1, "cardinality", <<>>, BasicSetValuedPolifunction_cardinality(p1))

LiftToSet ==
    /\ fam = "set" /\ p1.kind = "LiftToSet"
    /\ \/ Invoke(p1, "evaluate", <<>>, LiftedSetValuedPolifunction_evaluate(p1))
       \/ Invoke(p1, "in_domain", <<>>, LiftedSetValuedPolifunction_in_domain(p1))
       \/ Invoke(p1, "value_set", <<>>, LiftedSetValuedPolifunction_value_set(p1))
       \/ \E value \in Probe :
             Invoke(p1, "contains_value", <<value>>,
                    LiftedSetValuedPolifunction_contains_value(p1, value))
       \/ Invoke(p1, "cardinality", <<>>, LiftedSetValuedPolifunction_cardinality(p1))

Union ==
    /\ fam = "set"
    /\ LET U == UnionPolifunction_new(p1, p2) IN
       \/ Invoke(U, "evaluate", <<>>, UnionPolifunction_evaluate(U))
       \/ Invoke(U, "in_domain", <<>>, UnionPolifunction_in_domain(U))
       \/ Invoke(U, "value_set", <<>>, UnionPolifunction_value_set(U))
       \/ \E value \in Probe :
             Invoke(U, "contains_value", <<value>>, UnionPolifunction_contains_value(U, value))
       \/ Invoke(U, "cardinality", <<>>, UnionPolifunction_cardinality(U))

\* the methods of to_interval(P) for a set-valued P
CallToInterval(T) ==
    \/ Invoke(T, "evaluate", <<>>, SetToIntervalPolifunction_evaluate(T))
    \/ Invoke(T, "in_domain", <<>>, SetToIntervalPolifunction_in_domain(T))
    \/ Invoke(T, "value_interval", <<>>, SetToIntervalPolifunction_value_interval(T))
    \/ \E value \in Probe :
          Invoke(T, "contains_value", <<value>>,
                 SetToIntervalPolifunction_contains_value(T, value))
    \/ Invoke(T, "interval_width", <<>>, SetToIntervalPolifunction_interval_width(T))

ToInterval ==
    /\ fam = "set"
    /\ \/ CallToInterval(to_interval(p1))
       \/ CallToInterval(to_interval(UnionPolifunction_new(p1, p2)))

BasicIntervalValued ==
    /\ fam = "interval"
    /\ \/ Invoke(p1, "evaluate", <<>>, BasicIntervalValuedPolifunction_evaluate(p1))
       \/ Invoke(p1, "in_domain", <<>>, BasicIntervalValuedPolifunction_in_domain(p1))
       \/ Invoke(p1, "value_interval", <<>>, BasicIntervalValuedPolifunction_value_interval(p1))
       \/ \E value \in EndProbe :
             Invoke(p1, "contains_value", <<value>>,
                    BasicIntervalValuedPolifunction_contains_value(p1, value))
       \/ Invoke(p1, "interval_width", <<>>, BasicIntervalValuedPolifunction_interval_width(p1))

Hull ==
    /\ fam \in {"interval", "partial"}
    /\ LET H == HullPolifunction_new(p1, p2) IN
       \/ Invoke(H, "evaluate", <<>>, HullPolifunction_evaluate(H))
       \/ Invoke(H, "in_domain", <<>>, HullPolifunction_in_domain(H))
       \/ Invoke(H, "value_interval", <<>>, HullPolifunction_value_interval(H))
       \/ \E value \in (IF fam = "partial" THEN PartialEndProbe ELSE EndProbe) :
             Invoke(H, "contains_value", <<value>>, HullPolifunction_contains_value(H, value))
       \/ Invoke(H, "interval_width", <<>>, HullPolifunction_interval_width(H))

Lifted ==
    /\ fam = "base" /\ p1.kind = "Lifted"
    /\ \/ Invoke(p1, "evaluate", <<>>, LiftedPolifunction_evaluate(p1))
       \/ Invoke(p1, "in_domain", <<>>, LiftedPolifunction_in_domain(p1))

Constant ==
    /\ fam = "base" /\ p1.kind = "Lifted"
    /\ \E value \in Val :
          LET K == constant(value, p1.domain, p1.who, p1.at) IN
          \/ Invoke(K, "evaluate", <<>>, LiftedPolifunction_evaluate(K))
          \/ Invoke(K, "in_domain", <<>>, LiftedPolifunction_in_domain(K))

Sum ==
    /\ fam = "base"
    /\ LET S == SumPolifunction_new(p1, p2) IN
       \/ Invoke(S, "evaluate", <<>>, SumPolifunction_evaluate(S))
       \/ Invoke(S, "in_domain", <<>>, SumPolifunction_in_domain(S))

Inverted ==
    /\ fam = "base"
    /\ LET V == InvertedPolifunction_new(p1) IN
       \/ Invoke(V, "evaluate", <<>>, InvertedPolifunction_evaluate(V))
       \/ Invoke(V, "in_domain", <<>>, InvertedPolifunction_in_domain(V))

Composed ==
    /\ fam = "base"
    /\ LET C == ComposedPolifunction_new(p1, p2) IN
       \/ Invoke(C, "evaluate", <<>>, ComposedPolifunction_evaluate(C))
       \/ Invoke(C, "in_domain", <<>>, ComposedPolifunction_in_domain(C))

Compose ==
    /\ fam = "compose"
    /\ LET C == compose(p1, p2, into) IN
       \/ Invoke(C, "evaluate", <<>>, compose_ComposedPolifunction_evaluate(C))
       \/ Invoke(C, "in_domain", <<>>, compose_ComposedPolifunction_in_domain(C))

Next ==
    \/ BasicSetValued
    \/ LiftToSet
    \/ Union
    \/ ToInterval
    \/ BasicIntervalValued
    \/ Hull
    \/ Lifted
    \/ Constant
    \/ Sum
    \/ Inverted
    \/ Composed
    \/ Compose

Spec == Init /\ [][Next]_vars

(* ------------------------------ claims --------------------------------- *)

\* in_domain of the polifunction the last call was made on
InDomain(P) ==
    CASE P.kind = "Union" -> UnionPolifunction_in_domain(P).r
      [] P.kind = "Hull" -> HullPolifunction_in_domain(P).r
      [] P.kind = "Sum" -> SumPolifunction_in_domain(P).r
      [] P.kind = "Inverted" -> InvertedPolifunction_in_domain(P).r
      [] P.kind = "Composed" -> ComposedPolifunction_in_domain(P).r
      [] P.kind = "Compose" -> compose_ComposedPolifunction_in_domain(P).r
      [] P.kind = "ToInterval" -> SetToIntervalPolifunction_in_domain(P).r
      [] OTHER -> in_domain(P).r

\* the last call was method m on a polifunction of kind k
Called(k, m) == self.kind = k /\ op = m

\* the last call was one of the three evaluation entry points
Evaluated == op \in {"evaluate", "value_set", "value_interval"}

\* C1 as stated: on every implementation of the library, an evaluation entry
\* point called on an input outside the polifunction's domain returns DomainError.
C1_AsStated ==
    (Evaluated /\ ~InDomain(self)) => result = Err(DomainError)

\* C1: on every implementation except the inversion stub and the placeholder
\* ComposedPolifunction, an evaluation entry point called on an input outside
\* the polifunction's domain returns DomainError, whatever the closures of the
\* leaves would return; the two stubs return their Other(..) error instead.
C1_DomainCheckFirst ==
    (Evaluated /\ ~InDomain(self)) =>
        CASE self.kind = "Inverted" -> result = Err(Other("Not implemented yet"))
          [] self.kind = "Composed" ->
                result = Err(Other("ComposedPolifunction evaluation not implemented"))
          [] OTHER -> result = Err(DomainError)

\* C1 witness: a lifted function that would succeed is asked outside its domain
C1_Witness ==
    /\ Called("Lifted", "evaluate")
    /\ ~self.domain
    /\ self.fn.ok
    /\ result = Err(DomainError)

\* the non-domain errors the branches of the union called last failed with
BranchFailures ==
    {r.err : r \in {b \in {value_set(self.p1).r, value_set(self.p2).r} :
                        ~b.ok /\ b.err # DomainError}}

\* C2: Union.value_set on an input of the union's domain fails with the error
\* of a branch that failed with an error other than DomainError.
C2_UnionPropagatesErrors ==
    (Called("Union", "value_set") /\ InDomain(self) /\ BranchFailures # {}) =>
        (~result.ok /\ result.err \in BranchFailures)

\* the value sets of the branches of the union called last that succeeded
BranchSets ==
    {r.val : r \in {b \in {value_set(self.p1).r, value_set(self.p2).r} : b.ok}}

\* C3: when no branch fails with an error other than DomainError, Union.value_set
\* on an input of the union's domain returns the union of the value sets of the
\* branches that succeeded, empty sets included, and DomainError only when both
\* branches failed with DomainError.
C3_UnionOfSucceeded ==
    (Called("Union", "value_set") /\ InDomain(self) /\ BranchFailures = {}) =>
        IF BranchSets = {} THEN result = Err(DomainError)
        ELSE result = Ok(UNION BranchSets)

\* the polifunction called last is over a totally ordered element type
TotallyOrdered == fam # "partial"

\* value lies in interval i under the inclusive / exclusive reading of its bounds
Within(i, value) ==
    /\ (i.lower_inclusive /\ value = i.lower) \/ value > i.lower
    /\ (i.upper_inclusive /\ value = i.upper) \/ value < i.upper

\* both branches of the hull called last are in domain and return an interval
BothBranchesSucceed ==
    /\ self.kind = "Hull"
    /\ self.p1.domain /\ self.p1.fn.ok
    /\ self.p2.domain /\ self.p2.fn.ok

\* C4: where both branches of a hull over a totally ordered element type
\* succeed, every value that lies in the interval of a branch is reported as
\* contained by Hull.contains_value.
C4_HullContainsBranches ==
    (Called("Hull", "contains_value") /\ TotallyOrdered /\ BothBranchesSucceed) =>
        ((Within(self.p1.fn.val, arg[1]) \/ Within(self.p2.fn.val, arg[1])) =>
            result = Ok(TRUE))

\* C4 witness: a value of the second branch's interval that lies below the first
\* branch's interval is contained in the hull
C4_Witness ==
    /\ Called("Hull", "contains_value") /\ TotallyOrdered /\ BothBranchesSucceed
    /\ Within(self.p2.fn.val, arg[1])
    /\ arg[1] < self.p1.fn.val.lower
    /\ result = Ok(TRUE)

\* the bound the hull takes from bounds a and b with inclusivity flags ia and ib,
\* where Better(a, b) says that a lies strictly further out than b
HullBound(a, ia, b, ib, Better(_, _)) ==
    IF Better(a, b) THEN <<a, ia>>
    ELSE IF Better(b, a) THEN <<b, ib>>
    ELSE <<a, ia \/ ib>>

Below(a, b) == a < b
Above(a, b) == a > b

\* C5: where both branches of a hull over a totally ordered element type
\* succeed, the hull's lower bound is the smaller lower bound with the flag of
\* the branch that supplied it, the upper bound the larger upper bound likewise,
\* and on a tie the bound is inclusive iff either is.
C5_HullBounds ==
    (Called("Hull", "value_interval") /\ TotallyOrdered /\ BothBranchesSucceed) =>
        LET a == self.p1.fn.val
            b == self.p2.fn.val
            lo == HullBound(a.lower, a.lower_inclusive, b.lower, b.lower_inclusive, Below)
            hi == HullBound(a.upper, a.upper_inclusive, b.upper, b.upper_inclusive, Above)
        IN result = Ok([lower |-> lo[1], lower_inclusive |-> lo[2],
                        upper |-> hi[1], upper_inclusive |-> hi[2]])

\* C5 witness: equal lower bounds, the first exclusive and the second inclusive,
\* give an inclusive lower bound
C5_Witness ==
    /\ Called("Hull", "value_interval") /\ TotallyOrdered /\ BothBranchesSucceed
    /\ self.p1.fn.val.lower = self.p2.fn.val.lower
    /\ ~self.p1.fn.val.lower_inclusive /\ self.p2.fn.val.lower_inclusive
    /\ result.ok /\ result.val.lower_inclusive
    /\ result.val.lower = self.p1.fn.val.lower

\* C6: on an input of the hull's domain, Hull.value_interval returns P2's result
\* when P1 fails with DomainError, P1's interval when only P2 fails with
\* DomainError, and otherwise the first error met, P2 being left alone after an
\* error of P1 other than DomainError.
C6_HullFallback ==
    (Called("Hull", "value_interval") /\ InDomain(self)) =>
        LET r1 == value_interval(self.p1).r
            r2 == value_interval(self.p2).r
        IN
        /\ r1 = Err(DomainError) => result = r2
        /\ (r1.ok /\ r2 = Err(DomainError)) => result = r1
        /\ (~r1.ok /\ r1.err # DomainError) =>
              /\ result = r1
              /\ \A k \in 1..Len(trace) : trace[k].who # "p2"
        /\ (r1.ok /\ ~r2.ok /\ r2.err # DomainError) => result = r2

\* C6 witness: P1 is out of domain and P2 fails with an error of its own closure
C6_Witness ==
    /\ Called("Hull", "value_interval")
    /\ ~self.p1.domain
    /\ self.p2.domain /\ ~self.p2.fn.ok /\ self.p2.fn.err = ComputationError
    /\ result = Err(ComputationError)

\* C7: compose(p1, p2).in_domain is p2.in_domain; evaluate is DomainError outside
\* p2's domain, else p2's error, else for Single(v) exactly p1.evaluate(into(v)),
\* and for every other shape an Other(..) error without p1 being touched.
C7_Compose ==
    /\ Called("Compose", "in_domain") => result = self.p2.domain
    /\ Called("Compose", "evaluate") =>
          LET r2 == evaluate(self.p2).r IN
          IF ~self.p2.domain THEN result = Err(DomainError)
          ELSE IF ~r2.ok THEN result = r2
          ELSE IF r2.val.tag = "Single"
               THEN result = evaluate(self.p1[self.into[r2.val.v]]).r
          ELSE /\ ~result.ok /\ result.err.kind = "Other"
               /\ \A k \in 1..Len(trace) : trace[k].who # "p1"

\* C7 witness: p2 yields Single(v), into(v) differs from v and lies outside p1's
\* domain although v lies inside it, and the composition fails with DomainError
C7_Witness ==
    /\ Called("Compose", "evaluate")
    /\ self.p2.kind = "Lifted" /\ self.p2.domain /\ self.p2.fn.ok
    /\ LET v == self.p2.fn.val IN
       /\ v \in Mid
       /\ self.into[v] # v
       /\ self.p1[v].domain /\ self.p1[v].fn.ok
       /\ ~self.p1[self.into[v]].domain
    /\ result = Err(DomainError)

\* C8: to_interval(P).value_interval is [min S, max S], both bounds inclusive,
\* for a non-empty value set S of P, ComputationError for the empty set and P's
\* error when P.value_set fails; evaluate returns the same, wrapped as Interval.
C8_ToInterval ==
    (self.kind = "ToInterval" /\ op \in {"value_interval", "evaluate"}) =>
        LET s == original_value_set(self.original).r
            Wrap(i) == IF op = "evaluate" THEN IntervalValue(i) ELSE i
        IN
        IF ~s.ok THEN result = s
        ELSE IF s.val = {} THEN result = Err(ComputationError)
        ELSE \E lo \in s.val, hi \in s.val :
                /\ \A y \in s.val : lo <= y /\ y <= hi
                /\ result = Ok(Wrap([lower |-> lo, upper |-> hi,
                                     lower_inclusive |-> TRUE, upper_inclusive |-> TRUE]))

\* C8 witness: a set of more than one value gives an interval from its least to
\* its greatest element
C8_Witness ==
    /\ Called("ToInterval", "value_interval")
    /\ self.original.kind = "BasicSet"
    /\ self.original.domain /\ self.original.fn.ok
    /\ Cardinality(self.original.fn.val) > 1
    /\ result.ok
    /\ result.val.lower < result.val.upper

\* C9: on an input of both domains Sum.evaluate is Single(v1 + v2) for two Single
\* results, Other("Complex operation not yet implemented") when both succeed
\* with another shape among them, and otherwise the first error, P1's first.
C9_Sum ==
    (Called("Sum", "evaluate") /\ self.p1.domain /\ self.p2.domain) =>
        LET r1 == evaluate(self.p1).r
            r2 == evaluate(self.p2).r
        IN
        IF ~r1.ok THEN result = r1
        ELSE IF ~r2.ok THEN result = r2
        ELSE IF r1.val.tag = "Single" /\ r2.val.tag = "Single"
             THEN /\ result.ok /\ result.val.tag = "Single"
                  /\ result.val.v = r1.val.v + r2.val.v
        ELSE result = Err(Other("Complex operation not yet implemented"))

\* C9 witness: two different Single values are added
C9_Witness ==
    /\ Called("Sum", "evaluate")
    /\ self.p1.kind = "Lifted" /\ self.p1.domain /\ self.p1.fn.ok
    /\ self.p2.kind = "Lifted" /\ self.p2.domain /\ self.p2.fn.ok
    /\ self.p1.fn.val # self.p2.fn.val
    /\ result = Ok(Single(self.p1.fn.val + self.p2.fn.val))

\* C10: the domain of a union and of a hull is the union of the domains of
\* its two constituents.
C10_DomainIsUnion ==
    ((Called("Union", "in_domain") \/ Called("Hull", "in_domain"))) =>
        result = (self.p1.domain \/ self.p2.domain)

\* C10 witness: an input of the second constituent's domain only
C10_Witness ==
    /\ Called("Union", "in_domain")
    /\ ~self.p1.domain /\ self.p2.domain
    /\ result = TRUE

\* the events of kind ev that leaf who left in the trace of the last call
Events(ev, who) == {k \in 1..Len(trace) : trace[k].ev = ev /\ trace[k].who = who}

\* C11: Sum.in_domain is the conjunction of the constituents' in_domain, and
\* Sum.evaluate on an input outside the domain of either constituent returns
\* DomainError with neither constituent evaluated: no closure runs and no
\* constituent is asked about its domain a second time.
C11_SumDomain ==
    /\ Called("Sum", "in_domain") => result = (self.p1.domain /\ self.p2.domain)
    /\ (Called("Sum", "evaluate") /\ ~(self.p1.domain /\ self.p2.domain)) =>
          /\ result = Err(DomainError)
          /\ \A who \in {"p1", "p2"} :
                /\ Events("call", who) = {}
                /\ Cardinality(Events("contains", who)) <= 1

\* C11 witness: an input of P1's domain only, where P1 would return a value
C11_Witness ==
    /\ Called("Sum", "evaluate")
    /\ self.p1.kind = "Lifted" /\ self.p1.domain /\ self.p1.fn.ok
    /\ ~self.p2.domain
    /\ result = Err(DomainError)
    /\ Events("call", "p1") = {}

\* C12: Invert(P).evaluate is the error Other("Not implemented yet") and
\* Invert(P).in_domain is false for every P and every input, and neither call
\* touches P.
C12_InversionStub ==
    /\ Called("Inverted", "evaluate") =>
          result = Err(Other("Not implemented yet")) /\ trace = <<>>
    /\ Called("Inverted", "in_domain") =>
          result = FALSE /\ trace = <<>>

\* C12 witness: the wrapped polifunction is in domain and would return a value
C12_Witness ==
    /\ Called("Inverted", "evaluate")
    /\ self.original.domain /\ self.original.fn.ok
    /\ result = Err(Other("Not implemented yet"))

\* the order of the element type as a claim reads it: NaN relates to nothing
Lt(a, b) == a # NaN /\ b # NaN /\ a < b
Eq(a, b) == a # NaN /\ b # NaN /\ a = b

\* what value_interval returns on the interval-valued polifunction P
ValueInterval(P) ==
    CASE P.kind = "BasicInterval" -> BasicIntervalValuedPolifunction_value_interval(P).r
      [] P.kind = "Hull" -> HullPolifunction_value_interval(P).r
      [] P.kind = "ToInterval" -> SetToIntervalPolifunction_value_interval(P).r

\* C13: on the basic interval-valued polifunction and on Hull, where
\* value_interval returns the interval I, contains_value(v) is true iff
\* ((I.lower_inclusive and v = I.lower) or v > I.lower) and
\* ((I.upper_inclusive and v = I.upper) or v < I.upper); so an interval with
\* lower = upper contains lower alone when both bounds are inclusive and
\* nothing otherwise.
C13_BoundSemantics ==
    (op = "contains_value" /\ self.kind \in {"BasicInterval", "Hull"}) =>
        LET i == ValueInterval(self)
            v == arg[1]
        IN
        i.ok =>
          /\ result.ok
          /\ result.val <=>
                /\ (i.val.lower_inclusive /\ Eq(v, i.val.lower)) \/ Lt(i.val.lower, v)
                /\ (i.val.upper_inclusive /\ Eq(v, i.val.upper)) \/ Lt(v, i.val.upper)
          /\ Eq(i.val.lower, i.val.upper) =>
                (result.val <=> /\ i.val.lower_inclusive /\ i.val.upper_inclusive
                                /\ Eq(v, i.val.lower))

\* C13 witness: the hull of two branches is a point with an exclusive bound and
\* the point itself is reported as not contained
C13_Witness ==
    /\ Called("Hull", "contains_value") /\ BothBranchesSucceed
    /\ LET i == ValueInterval(self) IN
       /\ i.ok
       /\ Eq(i.val.lower, i.val.upper)
       /\ ~(i.val.lower_inclusive /\ i.val.upper_inclusive)
       /\ arg[1] = i.val.lower
    /\ result = Ok(FALSE)

\* branch 2 of the union called last was asked contains_value during the call:
\* it has one more domain check in the trace than Union.in_domain leaves there
Branch2Asked ==
    Cardinality(Events("contains", "p2")) = (IF self.p1.domain THEN 1 ELSE 2)

\* C14: Union.contains_value on an input of the union's domain is true when a
\* branch reports true; it is branch 1's error, branch 2 not being asked, when
\* branch 1 fails with an error other than DomainError; and it is branch 2's
\* result, success or error, when branch 1 reported false or failed with
\* DomainError.
C14_UnionContains ==
    (Called("Union", "contains_value") /\ InDomain(self)) =>
        LET b1 == set_contains_value(self.p1, arg[1]).r
            b2 == set_contains_value(self.p2, arg[1]).r
        IN
        /\ (b1 = Ok(TRUE) \/ (Branch2Asked /\ b2 = Ok(TRUE))) => result = Ok(TRUE)
        /\ (~b1.ok /\ b1.err # DomainError) => (result = b1 /\ ~Branch2Asked)
        /\ (b1 = Ok(FALSE) \/ b1 = Err(DomainError)) => (result = b2 /\ Branch2Asked)

\* C14 witness: branch 1 reports false and branch 2 fails with an error of its
\* own closure, which is the result
C14_Witness ==
    /\ Called("Union", "contains_value")
    /\ set_contains_value(self.p1, arg[1]).r = Ok(FALSE)
    /\ self.p2.domain /\ self.p2.fn = Err(ComputationError)
    /\ result = Err(ComputationError)

\* C15: on the basic interval-valued polifunction, Hull and to_interval over
\* integers, interval_width is I.upper - I.lower, negative for a malformed
\* interval, where value_interval returns the interval I, and the error of
\* value_interval where it fails.
C15_Width ==
    (op = "interval_width" /\ TotallyOrdered) =>
        LET i == ValueInterval(self) IN
        IF i.ok THEN result = Ok(i.val.upper - i.val.lower)
        ELSE result = i

\* C15 witness: a malformed interval of the basic polifunction has a negative width
C15_Witness ==
    /\ Called("BasicInterval", "interval_width")
    /\ self.domain /\ self.fn.ok
    /\ self.fn.val.lower > self.fn.val.upper
    /\ result.ok /\ result.val < 0
    /\ result.val = self.fn.val.upper - self.fn.val.lower

\* the element order relates a and b in neither direction
Incomparable(a, b) == ~Lt(a, b) /\ ~Lt(b, a) /\ ~Eq(a, b)

\* C16: where both branches of a hull over a partially ordered element type
\* succeed and their lower bounds, or their upper bounds, are incomparable,
\* value_interval, evaluate, contains_value and interval_width all return
\* ComputationError.
C16_Incomparable ==
    (/\ self.kind = "Hull" /\ BothBranchesSucceed
     /\ op \in {"value_interval", "evaluate", "contains_value", "interval_width"}
     /\ \/ Incomparable(self.p1.fn.val.lower, self.p2.fn.val.lower)
        \/ Incomparable(self.p1.fn.val.upper, self.p2.fn.val.upper)) =>
        result = Err(ComputationError)

\* C16 witness: the lower bounds are ordered, the upper bound of the second
\* branch is NaN, and the hull is refused
C16_Witness ==
    /\ Called("Hull", "value_interval") /\ BothBranchesSucceed
    /\ Lt(self.p1.fn.val.lower, self.p2.fn.val.lower)
    /\ self.p1.fn.val.upper # NaN /\ self.p2.fn.val.upper = NaN
    /\ result = Err(ComputationError)

\* the leaf that left event e in the trace
LeafOf(e) ==
    IF e.who = "p2" THEN p2
    ELSE IF fam = "compose" THEN p1[e.at]
    ELSE p1

\* C17: in every call of every operation on every polifunction built from
\* basic, lifted, lift-to-set and constant leaves, the stored closure of a leaf
\* runs only on an element its own domain contains and only after that leaf's
\* domain was asked about the element earlier in the same call.
C17_MappingAfterCheck ==
    \A k \in 1..Len(trace) :
        (trace[k].ev = "call" /\ LeafOf(trace[k]).kind # "Implementor") =>
            /\ LeafOf(trace[k]).domain
            /\ \E j \in 1..(k - 1) :
                  trace[j] = [ev |-> "contains", who |-> trace[k].who, at |-> trace[k].at]

\* C17 witness: to_interval over a union runs the closure of the second leaf,
\* the input lying outside the domain of the first, whose closure is left alone
C17_Witness ==
    /\ Called("ToInterval", "value_interval")
    /\ self.original.kind = "Union"
    /\ ~self.original.p1.domain
    /\ Events("call", "p1") = {}
    /\ Events("call", "p2") # {}

\* lower <= upper under the order of the element type
WellFormed(i) == Lt(i.lower, i.upper) \/ Eq(i.lower, i.upper)

\* C18 as stated: every interval returned by Hull.value_interval and by
\* to_interval(P).value_interval satisfies lower <= upper, whatever intervals
\* the constituents return.
C18_AsStated ==
    (op = "value_interval" /\ self.kind \in {"Hull", "ToInterval"} /\ result.ok) =>
        WellFormed(result.val)

\* C18: every interval returned by to_interval(P).value_interval satisfies
\* lower <= upper; an interval returned by Hull.value_interval satisfies it when
\* the interval of every branch that succeeded does, and a malformed interval
\* of a branch is not repaired.
C18_DerivedIntervals ==
    (op = "value_interval" /\ result.ok) =>
        /\ self.kind = "ToInterval" => WellFormed(result.val)
        /\ self.kind = "Hull" =>
              ((\A b \in {value_interval(self.p1).r, value_interval(self.p2).r} :
                    b.ok => WellFormed(b.val))
               => WellFormed(result.val))

\* C18 witness: two well-formed intervals, the first wholly below the second,
\* give a hull from the lower bound of the first to the upper bound of the second
C18_Witness ==
    /\ Called("Hull", "value_interval") /\ BothBranchesSucceed
    /\ WellFormed(self.p1.fn.val) /\ WellFormed(self.p2.fn.val)
    /\ Lt(self.p1.fn.val.upper, self.p2.fn.val.lower)
    /\ result.ok
    /\ result.val.lower = self.p1.fn.val.lower
    /\ result.val.upper = self.p2.fn.val.upper

\* C19: the two evaluation entry points of a union agree: evaluate returns
\* Set(s) iff value_set returns s, and one fails iff the other fails with the
\* same kind of error.
C19_UnionAgree ==
    /\ Called("Union", "evaluate") =>
          LET s == UnionPolifunction_value_set(self).r IN
          IF s.ok THEN result = Ok(Set(s.val))
          ELSE ~result.ok /\ result.err.kind = s.err.kind
    /\ Called("Union", "value_set") =>
          LET e == UnionPolifunction_evaluate(self).r IN
          IF e.ok THEN result = Ok(e.val.v)
          ELSE ~result.ok /\ result.err.kind = e.err.kind

\* what value_set returns on the set-valued polifunction P
ValueSet(P) ==
    CASE P.kind = "Union" -> UnionPolifunction_value_set(P).r
      [] OTHER -> value_set(P).r

\* C20: on the basic set-valued polifunction, Union and Lift-to-set, where
\* value_set returns s, cardinality returns |s| and contains_value(v) returns
\* whether v is in s; where value_set fails, cardinality and contains_value fail.
C20_DerivedQueries ==
    (self.kind \in {"BasicSet", "LiftToSet", "Union"}) =>
        LET s == ValueSet(self) IN
        /\ op = "cardinality" =>
              IF s.ok THEN result = Ok(Cardinality(s.val)) ELSE ~result.ok
        /\ op = "contains_value" =>
              IF s.ok THEN result = Ok(arg[1] \in s.val) ELSE ~result.ok

====
